---- MODULE Spec2Model ----
(***************************************************************************)
(* Model of clock_api.py, the Random Clock API server.                     *)
(*                                                                         *)
(* Strings are sequences of one-character strings, so that split, int(),   *)
(* strftime and the f-string formats are computed and not assumed.         *)
(* Optional values are sequences of length 0 (absent / None) or 1.         *)
(* The wall clock has minute resolution; fields below the minute (the      *)
(* seconds of lastSeen and of timestamp) are always "00".                  *)
(***************************************************************************)
EXTENDS Integers, Sequences, FiniteSets, TLC

(***************************************************************************)
(* Bounds of the model.                                                    *)
(***************************************************************************)
\* largest content pool loaded at start-up (server specification)
MaxItems == 2
\* largest pool handed to the stand-alone schedule build
MaxPool == 3
\* number of clock ticks explored
MaxTicks == 2
\* number of request-handling threads
MaxReq == 2

(***************************************************************************)
(* Program constants.                                                      *)
(***************************************************************************)
REQUIRE_AUTH == FALSE
API_KEY == <<"k">>
LcgMultiplier == 9301
LcgIncrement == 49297
LcgModulus == 233280
MinutesPerDay == 1440
AppearancesPerItem == 3

(***************************************************************************)
(* Characters and strings.                                                 *)
(***************************************************************************)
Digits == <<"0", "1", "2", "3", "4", "5", "6", "7", "8", "9">>

IsDigit(c) == \E d \in 1..10 : Digits[d] = c

DigitVal(c) == (CHOOSE d \in 1..10 : Digits[d] = c) - 1

None == <<>>

Some(v) == <<v>>

IsSome(o) == Len(o) = 1

\* str.replace(old, new) for a one-character old
RECURSIVE StrReplace(_, _, _)
StrReplace(s, old, new) ==
    IF s = <<>> THEN <<>>
    ELSE (IF Head(s) = old THEN new ELSE <<Head(s)>>) \o StrReplace(Tail(s), old, new)

\* str.split(sep) for a one-character sep: always at least one part
RECURSIVE StrSplitFrom(_, _, _)
StrSplitFrom(s, sep, cur) ==
    IF s = <<>> THEN <<cur>>
    ELSE IF Head(s) = sep THEN <<cur>> \o StrSplitFrom(Tail(s), sep, <<>>)
    ELSE StrSplitFrom(Tail(s), sep, Append(cur, Head(s)))

StrSplit(s, sep) == StrSplitFrom(s, sep, <<>>)

RECURSIVE StripLeft(_)
StripLeft(s) == IF s # <<>> /\ Head(s) = " " THEN StripLeft(Tail(s)) ELSE s

RECURSIVE StripRight(_)
StripRight(s) ==
    IF s # <<>> /\ s[Len(s)] = " " THEN StripRight(SubSeq(s, 1, Len(s) - 1)) ELSE s

RECURSIVE DigitsValue(_, _)
DigitsValue(s, acc) ==
    IF s = <<>> THEN acc ELSE DigitsValue(Tail(s), acc * 10 + DigitVal(Head(s)))

AllDigits(s) == s # <<>> /\ \A k \in 1..Len(s) : IsDigit(s[k])

\* int(s): surrounding blanks are stripped, one optional sign, then digits.
\* (Underscore digit separators are not among the inputs.)
\* Result: [ok |-> FALSE] stands for ValueError.
PyInt(s) ==
    LET t == StripRight(StripLeft(s))
        signed == t # <<>> /\ Head(t) \in {"+", "-"}
        body == IF signed THEN Tail(t) ELSE t
    IN  IF AllDigits(body)
        THEN [ok |-> TRUE,
              val |-> IF signed /\ Head(t) = "-" THEN 0 - DigitsValue(body, 0)
                      ELSE DigitsValue(body, 0)]
        ELSE [ok |-> FALSE, val |-> 0]

RECURSIVE NatStr(_)
NatStr(n) == IF n < 10 THEN <<Digits[n + 1]>> ELSE Append(NatStr(n \div 10), Digits[(n % 10) + 1])

RECURSIVE ZeroPad(_, _)
ZeroPad(s, w) == IF Len(s) >= w THEN s ELSE ZeroPad(<<"0">> \o s, w)

\* format spec 02d / strftime %H %M %m %d for a non-negative field
Pad2(n) == ZeroPad(NatStr(n), 2)

\* strftime %Y for a four-digit year
Pad4(n) == ZeroPad(NatStr(n), 4)

\* strftime('%H:%M')
StrfHM(dt) == Pad2(dt.hour) \o <<":">> \o Pad2(dt.minute)

\* strftime('%Y%m%d')
StrfYmd(dt) == Pad4(dt.year) \o Pad2(dt.month) \o Pad2(dt.day)

\* strftime('%Y-%m-%dT%H:%M:%SZ')
StrfIsoZ(dt) ==
    Pad4(dt.year) \o <<"-">> \o Pad2(dt.month) \o <<"-">> \o Pad2(dt.day) \o <<"T">>
        \o StrfHM(dt) \o <<":", "0", "0", "Z">>

(***************************************************************************)
(* datetime values and the ISO-8601 parser used for "geolocate".           *)
(***************************************************************************)
IsLeap(y) == (y % 4 = 0 /\ y % 100 # 0) \/ y % 400 = 0

DaysInMonth(y, m) ==
    IF m = 2 THEN (IF IsLeap(y) THEN 29 ELSE 28)
    ELSE IF m \in {4, 6, 9, 11} THEN 30 ELSE 31

TwoDigits(s) == Len(s) = 2 /\ AllDigits(s)

\* the seconds field: SS, SS.fff or SS.ffffff
IsSecondsField(s) ==
    /\ Len(s) \in {2, 6, 9}
    /\ TwoDigits(SubSeq(s, 1, 2))
    /\ DigitsValue(SubSeq(s, 1, 2), 0) <= 59
    /\ Len(s) > 2 => (s[3] = "." /\ AllDigits(SubSeq(s, 4, Len(s))))

\* position of the first "+" or "-" of s, 0 when there is none
RECURSIVE OffsetPos(_, _)
OffsetPos(s, k) ==
    IF k > Len(s) THEN 0
    ELSE IF s[k] \in {"+", "-"} THEN k ELSE OffsetPos(s, k + 1)

IsOffsetField(s) ==
    LET p == StrSplit(s, ":")
    IN  /\ Len(p) = 2
        /\ TwoDigits(p[1]) /\ DigitsValue(p[1], 0) <= 23
        /\ TwoDigits(p[2]) /\ DigitsValue(p[2], 0) <= 59

\* datetime.fromisoformat(s): YYYY-MM-DD[*HH[:MM[:SS[.fff[fff]]]][+HH:MM]]
\* [ok |-> FALSE] stands for ValueError.  The UTC offset is parsed and kept
\* out of hour and minute: the fields of the instant are used verbatim.
FromIsoFormat(s) ==
    LET bad == [ok |-> FALSE, dt |-> [year |-> 0, month |-> 0, day |-> 0, hour |-> 0, minute |-> 0]]
        dateOk ==
            /\ Len(s) >= 10
            /\ AllDigits(SubSeq(s, 1, 4)) /\ s[5] = "-"
            /\ AllDigits(SubSeq(s, 6, 7)) /\ s[8] = "-"
            /\ AllDigits(SubSeq(s, 9, 10))
        y == DigitsValue(SubSeq(s, 1, 4), 0)
        mo == DigitsValue(SubSeq(s, 6, 7), 0)
        d == DigitsValue(SubSeq(s, 9, 10), 0)
        rest == SubSeq(s, 12, Len(s))
        op == OffsetPos(rest, 1)
        timeStr == IF op = 0 THEN rest ELSE SubSeq(rest, 1, op - 1)
        offStr == IF op = 0 THEN <<>> ELSE SubSeq(rest, op + 1, Len(rest))
        tp == StrSplit(timeStr, ":")
        timeOk ==
            /\ Len(tp) \in 1..3
            /\ TwoDigits(tp[1]) /\ DigitsValue(tp[1], 0) <= 23
            /\ Len(tp) >= 2 => (TwoDigits(tp[2]) /\ DigitsValue(tp[2], 0) <= 59)
            /\ Len(tp) = 3 => IsSecondsField(tp[3])
            /\ op # 0 => IsOffsetField(offStr)
    IN  IF ~dateOk THEN bad
        ELSE IF y < 1 \/ mo \notin 1..12 \/ d < 1 \/ d > DaysInMonth(y, mo) THEN bad
        ELSE IF Len(s) = 10
             THEN [ok |-> TRUE, dt |-> [year |-> y, month |-> mo, day |-> d, hour |-> 0, minute |-> 0]]
        ELSE IF Len(s) = 11 \/ ~timeOk THEN bad
        ELSE [ok |-> TRUE,
              dt |-> [year |-> y, month |-> mo, day |-> d,
                      hour |-> DigitsValue(tp[1], 0),
                      minute |-> IF Len(tp) >= 2 THEN DigitsValue(tp[2], 0) ELSE 0]]

(***************************************************************************)
(* SeededRandom                                                            *)
(***************************************************************************)
\* SeededRandom.__init__: the state is the seed as given
SeededRandom(seed) == seed

\* SeededRandom.next: seed = (seed * 9301 + 49297) % 233280, returns
\* seed / 233280.  The product is taken in two parts (9301 = 93 * 100 + 1)
\* so that no intermediate value leaves the range of the model checker's
\* integers; the value is the same.  The returned float is the rational
\* num / den.
SeededRandom_next(seed) ==
    LET a == seed % LcgModulus
        prod == (((a * (LcgMultiplier \div 100)) % LcgModulus) * 100
                    + a * (LcgMultiplier % 100)) % LcgModulus
        s == (prod + LcgIncrement) % LcgModulus
    IN  [seed |-> s, ret |-> [num |-> s, den |-> LcgModulus]]

\* the draw taken over one slot too many: int(rng.next() * (i + 2))
DrawIndexWide(x, i) == (x.num * (i + 2)) \div x.den

\* j = int(rng.next() * (i + 1)).  On doubles the product equals the exact
\* floor for every i + 1 <= 44 and every state; the model's arrays are
\* shorter than that.
DrawIndex(x, i) == (x.num * (i + 1)) \div x.den

\* the swap written as one assignment: shuffled[i] = shuffled[j]
SwapItemsLossy(a, i, j) == [a EXCEPT ![i + 1] = a[j + 1]]

\* shuffled[i], shuffled[j] = shuffled[j], shuffled[i]  (0-based i, j)
SwapItems(a, i, j) == [a EXCEPT ![i + 1] = a[j + 1], ![j + 1] = a[i + 1]]

\* one iteration of the loop of shuffle_with_seed
ShuffleIteration(st) ==
    LET n == SeededRandom_next(st.rng)
        j == DrawIndex(n.ret, st.i)
    IN  [shuffled |-> SwapItems(st.shuffled, st.i, j), rng |-> n.seed, i |-> st.i - 1]

RECURSIVE ShuffleLoop(_)
ShuffleLoop(st) == IF st.i < 1 THEN st ELSE ShuffleLoop(ShuffleIteration(st))

\* shuffle_with_seed(array, seed).  ret is the returned list; array is the
\* caller's list after the call, which the copy leaves as it was.
shuffle_with_seed(array, seed) ==
    LET st == ShuffleLoop([shuffled |-> array, rng |-> SeededRandom(seed), i |-> Len(array) - 1])
    IN  [ret |-> st.shuffled, array |-> array]

\* tripled.extend([item, item, item]) for each item, in pool order
RECURSIVE Tripled(_)
Tripled(items) ==
    IF items = <<>> THEN <<>>
    ELSE <<Head(items), Head(items), Head(items)>> \o Tripled(Tail(items))

\* get_today_seed, given the value datetime.now() returned
get_today_seed(now) == PyInt(StrfYmd(now)).val

\* get_current_minute, given the value datetime.now() returned
get_current_minute(now) == now.hour * 60 + now.minute

\* the tripled list started as an alias of the pool (tripled = ITEMS): the
\* items are appended to the pool itself
generate_daily_schedule_alias(items, now) ==
    LET seed == get_today_seed(now)
        s == shuffle_with_seed(items \o Tripled(items), seed)
    IN  [ret |-> s.ret, seed |-> seed, ITEMS |-> s.array]

\* generate_daily_schedule, given the value datetime.now() returned.
\* ret is the schedule; ITEMS is the module-level list after the call.
generate_daily_schedule(items, now) ==
    LET seed == get_today_seed(now)
        s == shuffle_with_seed(Tripled(items), seed)
    IN  [ret |-> s.ret, seed |-> seed, ITEMS |-> items]

\* a lookup that answers with an empty item where the list has no slot
ListIndexDefault(list, k) ==
    IF 0 <= k /\ k < Len(list) THEN [ok |-> TRUE, item |-> <<list[k + 1]>>]
    ELSE [ok |-> TRUE, item |-> <<[content |-> <<>>, card |-> 0]>>]

\* schedule[minute]: Python list indexing, negative indices count from the
\* end, anything else out of range raises IndexError ([ok |-> FALSE]).
ListIndex(list, k) ==
    IF 0 <= k /\ k < Len(list) THEN [ok |-> TRUE, item |-> <<list[k + 1]>>]
    ELSE IF k < 0 /\ 0 - k <= Len(list) THEN [ok |-> TRUE, item |-> <<list[Len(list) + k + 1]>>]
    ELSE [ok |-> FALSE, item |-> <<>>]

(***************************************************************************)
(* Inputs: the content file, the request bodies, the wall clock.           *)
(***************************************************************************)
\* the en dash and the em dash, as one character each
EnDash == "EN-DASH"

EmDash == "EM-DASH"

\* the items of random_clock_content.json; a pool is a prefix of it
Catalogue ==
    << [content |-> <<"a", EnDash, "b">>, card |-> 1],
       [content |-> <<"c">>, card |-> 1],
       [content |-> <<"d", "-", "e">>, card |-> 2],
       [content |-> <<"f">>, card |-> 2],
       [content |-> <<"g">>, card |-> 3] >>

TimeStrings ==
    { <<"0", "0", ":", "0", "0">>,
      <<"1", "2", ":", "3", "4">>,
      <<"2", "3", ":", "5", "9">>,
      <<"2", "5", ":", "0", "0">>,
      <<"b", "o", "g", "u", "s">>,
      <<"-", "1", ":", "0", "0">>,
      <<"1", "2", ":", "7", "5">>,
      <<"0", ":", "1">>,
      <<"0", ":", "-", "1">> }

GeoStrings ==
    { <<"2", "0", "2", "4", "-", "0", "1", "-", "0", "1", "T", "0", "0", ":", "0", "2", ":", "0", "3", ".", "4", "5", "6", "Z">>,
      <<"2", "0", "2", "4", "-", "0", "1", "-", "0", "1", "T", "1", "2", ":", "3", "4", ":", "5", "6", "Z">>,
      <<"2", "0", "2", "4", "-", "1", "3", "-", "0", "1", "T", "0", "0", ":", "0", "0", ":", "0", "0", "Z">> }

OptionOf(S) == {None} \cup {Some(x) : x \in S}

\* the JSON object of a compose request, reduced to the keys compose reads
ComposeBodies == [time24 : OptionOf(TimeStrings), geolocate : OptionOf(GeoStrings)]

\* the JSON object of a status request
StatusBodies == [screenId : OptionOf({<<"s", "1">>}), buildId : OptionOf({<<"b", "7">>})]

\* request.get_json() of the like / unlike / seen handlers: null or an object
JsonBodies == OptionOf({[screenId |-> <<"s", "1">>]})

\* the Authorization header
AuthHeaders == {<<>>, <<"Bearer", " ">> \o API_KEY, <<"x">>}

\* values of the <int:minute> URL converter: digits only, so never negative
MinuteParams == {0, 1, MinutesPerDay - 1, MinutesPerDay}

StartClocks ==
    { [year |-> 2023, month |-> 12, day |-> 31, hour |-> 23, minute |-> 58],
      [year |-> 2024, month |-> 1, day |-> 1, hour |-> 0, minute |-> 0] }

\* the wall clock one minute later
NextMinute(dt) ==
    IF dt.minute < 59 THEN [dt EXCEPT !.minute = dt.minute + 1]
    ELSE IF dt.hour < 23 THEN [dt EXCEPT !.minute = 0, !.hour = dt.hour + 1]
    ELSE IF dt.day < DaysInMonth(dt.year, dt.month)
         THEN [dt EXCEPT !.minute = 0, !.hour = 0, !.day = dt.day + 1]
    ELSE IF dt.month < 12
         THEN [dt EXCEPT !.minute = 0, !.hour = 0, !.day = 1, !.month = dt.month + 1]
    ELSE [dt EXCEPT !.minute = 0, !.hour = 0, !.day = 1, !.month = 1, !.year = dt.year + 1]

\* seeds handed to the stand-alone build
BuildSeeds == {0, 1, 42, LcgModulus - 1, LcgModulus, 20231231, 20240101, 20240102}

RECURSIVE InjectiveSeqs(_, _)
InjectiveSeqs(S, n) ==
    IF n = 0 THEN {<<>>}
    ELSE {<<>>} \cup {<<x>> \o t : x \in S, t \in InjectiveSeqs(S, n - 1)}

IsInjective(q) == \A a, b \in 1..Len(q) : q[a] = q[b] => a = b

\* pools of distinct items handed to the stand-alone build
BuildPools ==
    {q \in InjectiveSeqs({Catalogue[k] : k \in 1..Len(Catalogue)}, MaxPool) : IsInjective(q)}

(***************************************************************************)
(* State.                                                                  *)
(***************************************************************************)
VARIABLES
    ITEMS,      \* the module-level list loaded from the content file
    clock,      \* the wall clock, what datetime.now() returns
    ticks,      \* minutes elapsed since the start
    req,        \* per thread: the request being handled and its locals
    build       \* the stand-alone run of the schedule build, step by step

vars == <<ITEMS, clock, ticks, req, build>>

Req == 1..MaxReq

IdleReq ==
    [pc |-> "idle", endpoint |-> "none", body |-> None,
     now_label |-> None, now_minute |-> None, now_seed |-> None,
     time24 |-> None, minute |-> None, seed |-> None,
     schedule |-> None, item |-> None, response |-> None]

BuildOff ==
    [pc |-> "off", pool |-> <<>>, seed |-> 0, tripled |-> <<>>, shuffled |-> <<>>,
     rng |-> 0, ret |-> None, i |-> 0, j |-> 0]

Ok(json) == [status |-> 200, error |-> "", json |-> Some(json)]

Failed(code, what) == [status |-> code, error |-> what, json |-> None]

\* an exception no handler catches: Flask answers 500
Raised(exc) == Failed(500, exc)

Finish(r, rec, resp) == req' = [req EXCEPT ![r] = [rec EXCEPT !.pc = "done", !.response = Some(resp)]]

(***************************************************************************)
(* Helpers of the handlers.                                                *)
(***************************************************************************)
\* check_auth, given the Authorization header of the request
check_auth(header) ==
    IF ~REQUIRE_AUTH THEN TRUE
    ELSE header = <<"Bearer", " ">> \o API_KEY

\* generate_poem_id: the first 8 hex digits of the MD5 of "{time24}-{content}";
\* the digest is represented by the text it is taken of
generate_poem_id(time24, content) == [md5_8 |-> time24 \o <<"-">> \o content]

\* compose, lines 121-125: hours, mins = map(int, time24.split(':'))
ResolveExplicit(time24) ==
    LET parts == StrSplit(time24, ":")
        ints == [k \in 1..Len(parts) |-> PyInt(parts[k])]
    IN  IF Len(parts) # 2 \/ \E k \in 1..Len(parts) : ~ints[k].ok
        THEN [ok |-> FALSE, time24 |-> time24, minute |-> 0]
        ELSE [ok |-> TRUE, time24 |-> time24, minute |-> ints[1].val * 60 + ints[2].val]

\* compose, lines 126-131
ResolveGeolocate(geolocate) ==
    LET p == FromIsoFormat(StrReplace(geolocate, "Z", <<"+", "0", "0", ":", "0", "0">>))
    IN  IF ~p.ok THEN [ok |-> FALSE, time24 |-> <<>>, minute |-> 0]
        ELSE [ok |-> TRUE, time24 |-> StrfHM(p.dt), minute |-> p.dt.hour * 60 + p.dt.minute]

\* the branches tested in the other order: geolocate before time24
ComposeModeGeoFirst(body) ==
    IF IsSome(body.geolocate) THEN "geolocate"
    ELSE IF IsSome(body.time24) THEN "time24"
    ELSE "now"

\* which branch of compose's if / elif / else a body takes
ComposeMode(body) ==
    IF IsSome(body.time24) THEN "time24"
    ELSE IF IsSome(body.geolocate) THEN "geolocate"
    ELSE "now"

\* stats: f'{(len(ITEMS) * 3 / 1440) * 100:.1f}%'.  The value in tenths of
\* a percent is len * 25 / 12; no pool below 6 items lies on a rounding tie.
Coverage(n) ==
    LET q == (n * AppearancesPerItem * 1000) \div MinutesPerDay
        rem == (n * AppearancesPerItem * 1000) % MinutesPerDay
        t == IF 2 * rem > MinutesPerDay THEN q + 1 ELSE q
    IN  NatStr(t \div 10) \o <<".">> \o NatStr(t % 10) \o <<"%">>

(***************************************************************************)
(* The handlers.  A handler is cut at its reads of the wall clock: each    *)
(* action contains one call of datetime.now() at most.                     *)
(***************************************************************************)
\* POST /api/v1/clock/status.  datetime.utcnow() is read off the same clock:
\* the offset of the local zone is taken as zero.
status(r, body) ==
    /\ req[r].pc = "idle"
    /\ LET now == clock
           stamp == StrfIsoZ(now)
       IN  Finish(r, [req[r] EXCEPT !.endpoint = "status"],
                  Ok([success |-> TRUE,
                      device |-> [screenId |-> IF IsSome(body.screenId) THEN body.screenId[1]
                                               ELSE <<"u", "n", "k", "n", "o", "w", "n">>,
                                  buildId |-> body.buildId,
                                  lastSeen |-> stamp, seen |-> 1,
                                  createdAt |-> stamp, isClaimed |-> FALSE]]))
    /\ UNCHANGED <<ITEMS, clock, ticks, build>>

\* POST /api/v1/clock/compose, lines 112-136: authorization and the time
compose(r, body, header) ==
    /\ req[r].pc = "idle"
    /\ LET rec == [req[r] EXCEPT !.endpoint = "compose", !.body = Some(body)]
       IN  IF REQUIRE_AUTH /\ ~check_auth(header)
           THEN Finish(r, rec, Failed(401, "Unauthorized"))
           ELSE IF ComposeMode(body) = "time24"
           THEN LET t == ResolveExplicit(body.time24[1])
                IN  IF ~t.ok THEN Finish(r, rec, Raised("ValueError"))
                    ELSE req' = [req EXCEPT ![r] =
                            [rec EXCEPT !.pc = "compose_schedule",
                                        !.time24 = Some(t.time24), !.minute = Some(t.minute)]]
           ELSE IF ComposeMode(body) = "geolocate"
           THEN LET t == ResolveGeolocate(body.geolocate[1])
                IN  IF ~t.ok THEN Finish(r, rec, Raised("ValueError"))
                    ELSE req' = [req EXCEPT ![r] =
                            [rec EXCEPT !.pc = "compose_schedule",
                                        !.time24 = Some(t.time24), !.minute = Some(t.minute)]]
           ELSE LET now == clock
                IN  req' = [req EXCEPT ![r] =
                        [rec EXCEPT !.pc = "compose_minute",
                                    !.now_label = Some(now), !.time24 = Some(StrfHM(now))]]
    /\ UNCHANGED <<ITEMS, clock, ticks, build>>

\* compose, line 136: minute = get_current_minute()
compose_minute(r) ==
    /\ req[r].pc = "compose_minute"
    /\ LET now == clock
       IN  req' = [req EXCEPT ![r] =
               [req[r] EXCEPT !.pc = "compose_schedule",
                              !.now_minute = Some(now),
                              !.minute = Some(get_current_minute(now))]]
    /\ UNCHANGED <<ITEMS, clock, ticks, build>>

\* compose, lines 138-159: the schedule, the slot, the poem
compose_schedule(r) ==
    /\ req[r].pc = "compose_schedule"
    /\ LET now == clock
           g == generate_daily_schedule(ITEMS, now)
           rec == [req[r] EXCEPT !.now_seed = Some(now), !.seed = Some(g.seed),
                                 !.schedule = Some(g.ret)]
           current == ListIndex(g.ret, req[r].minute[1])
           time24 == req[r].time24[1]
       IN  /\ ITEMS' = g.ITEMS
           /\ IF ~current.ok THEN Finish(r, rec, Raised("IndexError"))
              ELSE LET content == StrReplace(current.item[1].content, EnDash, <<"-">>)
                       poem == time24 \o <<" ", EmDash, " ">> \o content
                   IN  Finish(r, [rec EXCEPT !.item = current.item],
                              Ok([poemId |-> generate_poem_id(time24, poem),
                                  time24 |-> time24, poem |-> poem,
                                  preferredFont |-> "INTER", screensaver |-> FALSE]))
    /\ UNCHANGED <<clock, ticks, build>>

\* the three handlers that only acknowledge; name is the endpoint
Acknowledge(r, name, body, header) ==
    /\ req[r].pc = "idle"
    /\ LET rec == [req[r] EXCEPT !.endpoint = name]
       IN  IF REQUIRE_AUTH /\ ~check_auth(header)
           THEN Finish(r, rec, Failed(401, "Unauthorized"))
           ELSE IF ~IsSome(body) THEN Finish(r, rec, Raised("AttributeError"))
           ELSE Finish(r, rec, Ok([success |-> TRUE]))
    /\ UNCHANGED <<ITEMS, clock, ticks, build>>

\* POST /api/v1/clock/notes/<note_id>/seen
mark_note_seen(r, body, header) == Acknowledge(r, "mark_note_seen", body, header)

\* POST /api/v1/clock/likes/<poem_id>/mark
like_poem(r, body, header) == Acknowledge(r, "like_poem", body, header)

\* POST /api/v1/clock/likes/<poem_id>/unmark
unlike_poem(r, body, header) == Acknowledge(r, "unlike_poem", body, header)

\* GET /api/v1/clock, line 206: schedule = generate_daily_schedule()
clock_get(r) ==
    /\ req[r].pc = "idle"
    /\ LET now == clock
           g == generate_daily_schedule(ITEMS, now)
       IN  /\ ITEMS' = g.ITEMS
           /\ req' = [req EXCEPT ![r] =
                  [req[r] EXCEPT !.pc = "clock_get_minute", !.endpoint = "clock_get",
                                 !.now_seed = Some(now), !.seed = Some(g.seed),
                                 !.schedule = Some(g.ret)]]
    /\ UNCHANGED <<clock, ticks, build>>

\* GET /api/v1/clock, lines 207-208: the minute and the slot
clock_get_minute(r) ==
    /\ req[r].pc = "clock_get_minute"
    /\ LET now == clock
           minute == get_current_minute(now)
           rec == [req[r] EXCEPT !.now_minute = Some(now), !.minute = Some(minute)]
           current == ListIndex(req[r].schedule[1], minute)
       IN  IF ~current.ok THEN Finish(r, rec, Raised("IndexError"))
           ELSE req' = [req EXCEPT ![r] =
                    [rec EXCEPT !.pc = "clock_get_now", !.item = current.item]]
    /\ UNCHANGED <<ITEMS, clock, ticks, build>>

\* GET /api/v1/clock, lines 210-220: the label and the answer
clock_get_now(r) ==
    /\ req[r].pc = "clock_get_now"
    /\ LET now == clock
           time24 == StrfHM(now)
           item == req[r].item[1]
       IN  Finish(r, [req[r] EXCEPT !.now_label = Some(now), !.time24 = Some(time24)],
                  Ok([time |-> time24, content |-> item.content, card |-> item.card,
                      minute |-> req[r].minute[1], total_minutes |-> MinutesPerDay,
                      timestamp |-> now]))
    /\ UNCHANGED <<ITEMS, clock, ticks, build>>

\* GET /api/v1/clock/minute/<int:minute>
clock_at_minute(r, minute) ==
    /\ req[r].pc = "idle"
    /\ LET rec == [req[r] EXCEPT !.endpoint = "clock_at_minute", !.minute = Some(minute)]
       IN  IF minute < 0 \/ minute >= MinutesPerDay
           THEN /\ Finish(r, rec, Failed(400, "Minute must be between 0 and 1439"))
                /\ ITEMS' = ITEMS
           ELSE LET now == clock
                    g == generate_daily_schedule(ITEMS, now)
                    rec2 == [rec EXCEPT !.now_seed = Some(now), !.seed = Some(g.seed),
                                        !.schedule = Some(g.ret)]
                    item == ListIndex(g.ret, minute)
                    time_str == Pad2(minute \div 60) \o <<":">> \o Pad2(minute % 60)
                IN  /\ ITEMS' = g.ITEMS
                    /\ IF ~item.ok THEN Finish(r, rec2, Raised("IndexError"))
                       ELSE Finish(r, [rec2 EXCEPT !.item = item.item, !.time24 = Some(time_str)],
                                   Ok([time |-> time_str, content |-> item.item[1].content,
                                       card |-> item.item[1].card, minute |-> minute,
                                       total_minutes |-> MinutesPerDay]))
    /\ UNCHANGED <<clock, ticks, build>>

\* GET /api/v1/clock/stats
stats(r) ==
    /\ req[r].pc = "idle"
    /\ Finish(r, [req[r] EXCEPT !.endpoint = "stats"],
              Ok([total_items |-> Len(ITEMS),
                  total_cards |-> Len(ITEMS) \div 4,
                  appearances_per_day |-> Len(ITEMS) * AppearancesPerItem,
                  minutes_per_day |-> MinutesPerDay,
                  coverage |-> Coverage(Len(ITEMS))]))
    /\ UNCHANGED <<ITEMS, clock, ticks, build>>

\* GET /
index(r) ==
    /\ req[r].pc = "idle"
    /\ Finish(r, [req[r] EXCEPT !.endpoint = "index"], Ok([html |-> "documentation"]))
    /\ UNCHANGED <<ITEMS, clock, ticks, build>>

\* the answer is sent; the thread takes the next request with fresh locals
Reply(r) ==
    /\ req[r].pc = "done"
    /\ req' = [req EXCEPT ![r] = IdleReq]
    /\ UNCHANGED <<ITEMS, clock, ticks, build>>

\* a minute passes
Tick ==
    /\ ticks < MaxTicks
    /\ clock' = NextMinute(clock)
    /\ ticks' = ticks + 1
    /\ UNCHANGED <<ITEMS, req, build>>

Init ==
    /\ ITEMS \in {SubSeq(Catalogue, 1, n) : n \in 0..MaxItems}
    /\ clock \in StartClocks
    /\ ticks = 0
    /\ req = [r \in Req |-> IdleReq]
    /\ build = BuildOff

Next ==
    \/ \E r \in Req, body \in StatusBodies : status(r, body)
    \/ \E r \in Req, body \in ComposeBodies, header \in AuthHeaders : compose(r, body, header)
    \/ \E r \in Req : compose_minute(r)
    \/ \E r \in Req : compose_schedule(r)
    \/ \E r \in Req, body \in JsonBodies, header \in AuthHeaders : mark_note_seen(r, body, header)
    \/ \E r \in Req, body \in JsonBodies, header \in AuthHeaders : like_poem(r, body, header)
    \/ \E r \in Req, body \in JsonBodies, header \in AuthHeaders : unlike_poem(r, body, header)
    \/ \E r \in Req : clock_get(r)
    \/ \E r \in Req : clock_get_minute(r)
    \/ \E r \in Req : clock_get_now(r)
    \/ \E r \in Req, minute \in MinuteParams : clock_at_minute(r, minute)
    \/ \E r \in Req : stats(r)
    \/ \E r \in Req : index(r)
    \/ \E r \in Req : Reply(r)
    \/ Tick

Spec == Init /\ [][Next]_vars

(***************************************************************************)
(* The schedule build on its own, one statement at a time, for every pool  *)
(* of distinct items and every seed of the bounded sets.                   *)
(***************************************************************************)
\* generate_daily_schedule, lines 56-58: the tripled list
BuildTriple ==
    /\ build.pc = "start"
    /\ build' = [build EXCEPT !.pc = "tripled", !.tripled = Tripled(build.pool)]
    /\ UNCHANGED <<ITEMS, clock, ticks, req>>

\* shuffle_with_seed, lines 42-43: the generator and the copy
BuildCopy ==
    /\ build.pc = "tripled"
    /\ build' = [build EXCEPT !.pc = "loop", !.rng = SeededRandom(build.seed),
                              !.shuffled = build.tripled,
                              !.i = Len(build.tripled) - 1]
    /\ UNCHANGED <<ITEMS, clock, ticks, req>>

\* shuffle_with_seed, line 46: j = int(rng.next() * (i + 1))
BuildDraw ==
    /\ build.pc = "loop"
    /\ build.i >= 1
    /\ LET n == SeededRandom_next(build.rng)
       IN  build' = [build EXCEPT !.pc = "drawn", !.rng = n.seed, !.ret = Some(n.ret),
                                  !.j = DrawIndex(n.ret, build.i)]
    /\ UNCHANGED <<ITEMS, clock, ticks, req>>

\* shuffle_with_seed, line 47: the swap; an index outside the list raises
BuildSwap ==
    /\ build.pc = "drawn"
    /\ IF build.j + 1 \in DOMAIN build.shuffled
       THEN build' = [build EXCEPT !.pc = "loop",
                                   !.shuffled = SwapItems(build.shuffled, build.i, build.j),
                                   !.i = build.i - 1]
       ELSE build' = [build EXCEPT !.pc = "IndexError"]
    /\ UNCHANGED <<ITEMS, clock, ticks, req>>

\* shuffle_with_seed, line 49: return shuffled
BuildReturn ==
    /\ build.pc = "loop"
    /\ build.i < 1
    /\ build' = [build EXCEPT !.pc = "returned"]
    /\ UNCHANGED <<ITEMS, clock, ticks, req>>

InitBuild ==
    /\ ITEMS = <<>>
    /\ clock \in StartClocks
    /\ ticks = 0
    /\ req = [r \in Req |-> IdleReq]
    /\ \E pool \in BuildPools, seed \in BuildSeeds :
           build = [BuildOff EXCEPT !.pc = "start", !.pool = pool, !.seed = seed]

NextBuild == BuildTriple \/ BuildCopy \/ BuildDraw \/ BuildSwap \/ BuildReturn

SpecBuild == InitBuild /\ [][NextBuild]_vars

(***************************************************************************)
(* Properties.                                                             *)
(***************************************************************************)
Count(q, x) == Cardinality({k \in 1..Len(q) : q[k] = x})

\* "HH:MM": two digits, a colon, two digits, hour below 24, minute below 60
IsPaddedLabel(t) ==
    /\ Len(t) = 5
    /\ t[3] = ":"
    /\ TwoDigits(SubSeq(t, 1, 2)) /\ DigitsValue(SubSeq(t, 1, 2), 0) <= 23
    /\ TwoDigits(SubSeq(t, 4, 5)) /\ DigitsValue(SubSeq(t, 4, 5), 0) <= 59

LabelMinute(t) == DigitsValue(SubSeq(t, 1, 2), 0) * 60 + DigitsValue(SubSeq(t, 4, 5), 0)

\* two colon-separated integers, hour in [0,23] and minute in [0,59]
IsValidTime24(t) ==
    LET parts == StrSplit(t, ":")
    IN  /\ Len(parts) = 2
        /\ PyInt(parts[1]).ok /\ PyInt(parts[1]).val \in 0..23
        /\ PyInt(parts[2]).ok /\ PyInt(parts[2]).val \in 0..59

IsCompose(r) == req[r].endpoint = "compose"

ModeOf(r) ==
    IF IsSome(req[r].body[1].time24) THEN "time24"
    ELSE IF IsSome(req[r].body[1].geolocate) THEN "geolocate"
    ELSE "now"

Answered(r) == req[r].pc = "done" /\ req[r].response[1].status = 200

\* C1: when the build returns, the schedule has 3 * |pool| slots, every item
\* of the pool fills exactly 3 of them and every slot holds an item of the
\* pool.
C1_SchedulePermutesTripledPool ==
    build.pc = "returned" =>
        /\ Len(build.shuffled) = AppearancesPerItem * Len(build.pool)
        /\ \A k \in 1..Len(build.pool) :
               Count(build.shuffled, build.pool[k]) = AppearancesPerItem
        /\ \A k \in 1..Len(build.shuffled) :
               \E p \in 1..Len(build.pool) : build.shuffled[k] = build.pool[p]

C1_Witness ==
    /\ build.pc = "returned"
    /\ Len(build.pool) = MaxPool
    /\ build.shuffled # build.tripled

\* C2: any two requests that hold a schedule built from the same seed hold
\* the same schedule, slot by slot, however their builds were interleaved
\* with other requests.
C2_SameSeedSameSchedule ==
    \A r1, r2 \in Req :
        (/\ IsSome(req[r1].schedule) /\ IsSome(req[r2].schedule)
         /\ req[r1].seed = req[r2].seed)
        => /\ Len(req[r1].schedule[1]) = Len(req[r2].schedule[1])
           /\ \A k \in 1..Len(req[r1].schedule[1]) :
                  req[r1].schedule[1][k] = req[r2].schedule[1][k]

C2_Witness ==
    /\ Len(ITEMS) >= 2
    /\ \E r1, r2 \in Req :
           /\ r1 # r2
           /\ IsSome(req[r1].schedule) /\ IsSome(req[r2].schedule)
           /\ req[r1].seed = req[r2].seed
           /\ req[r1].endpoint # req[r2].endpoint
           /\ req[r1].schedule[1] # Tripled(ITEMS)

\* C3: a compose request whose time24 is not two colon-separated integers
\* with hour in [0,23] and minute in [0,59] ends in the parse failure, and
\* is never given a schedule slot or an output record.
C3_InvalidTime24Rejected ==
    \A r \in Req :
        (IsCompose(r) /\ ModeOf(r) = "time24" /\ ~IsValidTime24(req[r].body[1].time24[1]))
        => /\ req[r].item = None
           /\ req[r].pc = "done" => req[r].response[1] = Raised("ValueError")

\* C4: with a non-empty pool, a minute in [0,1439] used as index is always
\* below the length of the schedule built for the request.
C4_MinuteInsideSchedule ==
    \A r \in Req :
        (/\ ITEMS # <<>>
         /\ IsSome(req[r].schedule) /\ IsSome(req[r].minute)
         /\ req[r].minute[1] \in 0..(MinutesPerDay - 1))
        => req[r].minute[1] < Len(req[r].schedule[1])

\* C5: once compose has resolved its time, the label is a zero-padded
\* "HH:MM" and the minute is HH * 60 + MM of that label, within [0,1439].
C5_LabelPaddedAndMinuteMatches ==
    \A r \in Req :
        (IsCompose(r) /\ IsSome(req[r].time24) /\ IsSome(req[r].minute))
        => /\ IsPaddedLabel(req[r].time24[1])
           /\ req[r].minute[1] \in 0..(MinutesPerDay - 1)
           /\ req[r].minute[1] = LabelMinute(req[r].time24[1])

\* C6: in a request served from the current time, the seed, the minute and
\* the label are those of one and the same instant read during the request.
C6_OneSnapshotPerRequest ==
    \A r \in Req :
        (/\ req[r].endpoint = "clock_get" \/ (IsCompose(r) /\ ModeOf(r) = "now")
         /\ IsSome(req[r].seed) /\ IsSome(req[r].minute) /\ IsSome(req[r].time24))
        => \E t \in {req[r].now_seed[1], req[r].now_minute[1], req[r].now_label[1]} :
               /\ req[r].seed[1] = get_today_seed(t)
               /\ req[r].minute[1] = get_current_minute(t)
               /\ req[r].time24[1] = StrfHM(t)

\* C7: with an empty pool every schedule built has no slot, and every
\* lookup of a minute in [0,1439] ends in IndexError: no item, no record.
C7_EmptyPoolLookupFails ==
    ITEMS = <<>> =>
        \A r \in Req :
            /\ IsSome(req[r].schedule) => req[r].schedule[1] = <<>>
            /\ req[r].item = None
            /\ (/\ req[r].pc = "done"
                /\ IsSome(req[r].schedule) /\ IsSome(req[r].minute)
                /\ req[r].minute[1] \in 0..(MinutesPerDay - 1))
               => req[r].response[1] = Raised("IndexError")

C7_Witness ==
    /\ ITEMS = <<>>
    /\ \E r \in Req :
           /\ req[r].pc = "done"
           /\ req[r].schedule = Some(<<>>)
           /\ req[r].minute = Some(0)
           /\ req[r].response[1] = Raised("IndexError")

\* C8: compose takes its time from time24 whenever the body has one, from
\* geolocate only when it has no time24, and from the clock only when it has
\* neither; a time24 that does not parse ends the request.
C8_FirstMatchWins ==
    \A r \in Req :
        (IsCompose(r) /\ req[r].pc # "idle") =>
            LET b == req[r].body[1]
            IN  /\ IsSome(b.time24) =>
                    LET t == ResolveExplicit(b.time24[1])
                    IN  /\ req[r].now_label = None /\ req[r].now_minute = None
                        /\ t.ok => (req[r].time24 = b.time24 /\ req[r].minute = Some(t.minute))
                        /\ ~t.ok => (/\ req[r].pc = "done"
                                     /\ req[r].response[1] = Raised("ValueError")
                                     /\ req[r].time24 = None /\ req[r].minute = None)
                /\ (~IsSome(b.time24) /\ IsSome(b.geolocate)) =>
                    LET t == ResolveGeolocate(b.geolocate[1])
                    IN  /\ req[r].now_label = None /\ req[r].now_minute = None
                        /\ t.ok => (req[r].time24 = Some(t.time24) /\ req[r].minute = Some(t.minute))
                        /\ ~t.ok => (req[r].pc = "done" /\ req[r].time24 = None)
                /\ (~IsSome(b.time24) /\ ~IsSome(b.geolocate)) =>
                    /\ IsSome(req[r].now_label)
                    /\ req[r].time24 = Some(StrfHM(req[r].now_label[1]))
                    /\ IsSome(req[r].minute) =>
                           (/\ IsSome(req[r].now_minute)
                            /\ req[r].minute[1] = get_current_minute(req[r].now_minute[1]))

C8_Witness ==
    \E r \in Req :
        /\ IsCompose(r) /\ Answered(r)
        /\ IsSome(req[r].body[1].time24) /\ IsSome(req[r].body[1].geolocate)
        /\ ResolveGeolocate(req[r].body[1].geolocate[1]).ok
        /\ ResolveGeolocate(req[r].body[1].geolocate[1]).time24 # req[r].time24[1]

\* C9: after every call of next() the generator state lies in [0, 233279]
\* and the value returned is state / 233280, below 1; every index drawn at
\* step i lies in [0, i], inside the list, so the swap never raises.
C9_DrawWithinRange ==
    /\ IsSome(build.ret) =>
           /\ build.rng \in 0..(LcgModulus - 1)
           /\ build.ret[1].num = build.rng
           /\ build.ret[1].den = LcgModulus
           /\ build.ret[1].num < build.ret[1].den
    /\ build.pc = "drawn" =>
           /\ build.i \in 1..(Len(build.shuffled) - 1)
           /\ build.j \in 0..build.i
    /\ build.pc # "IndexError"

C9_Witness ==
    /\ build.pc = "drawn"
    /\ build.seed > LcgModulus
    /\ build.j = build.i

\* C10: no step of any request changes ITEMS, and every schedule a request
\* holds is the shuffle of the tripled ITEMS under the request's seed,
\* whatever ran before it.
C10_PoolNeverChanges ==
    /\ [][ITEMS' = ITEMS]_vars
    /\ [](\A r \in Req :
            IsSome(req[r].schedule) =>
                req[r].schedule[1] = shuffle_with_seed(Tripled(ITEMS), req[r].seed[1]).ret)

C10_Witness ==
    /\ Len(ITEMS) >= 2
    /\ \E r1, r2 \in Req :
           /\ r1 # r2
           /\ req[r1].pc = "done" /\ IsSome(req[r1].schedule)
           /\ req[r1].schedule[1] # Tripled(ITEMS)
           /\ Answered(r2) /\ req[r2].endpoint = "stats"

====
